---- MODULE Spec2Model ----
(***************************************************************************)
(* Model of docs/dask_averaging.ipynb: a notebook that provisions Dask     *)
(* workers, builds one lazy per-pulse average per detector module, stacks  *)
(* them, evaluates the stacked array once and releases the workers.        *)
(*                                                                         *)
(* Arrays are modelled as numpy lays them out: a shape and the elements in *)
(* row-major (C) order.  A lazy (Dask) array carries its shape and dtype,  *)
(* which Dask computes when the graph is built, and the graph itself,      *)
(* which is only evaluated by compute().                                   *)
(***************************************************************************)
EXTENDS Integers, Sequences, FiniteSets, TLC

(***************************************************************************)
(* Bounds of the model.  The notebook works on 16 modules of 512 x 128     *)
(* pixels with 64 pulses per train; the model keeps the same code paths on *)
(* small arrays.                                                           *)
(***************************************************************************)
NMod == 2          \* detector modules: range(16) in the notebook
PulsesPerTrain == 2 \* pulses_per_train=64 in the notebook
Rows == 1          \* 512 in the notebook
Cols == 2          \* 128 in the notebook
Dummy == 2         \* width of the middle axis of image.data on disk
MaxTrains == 2     \* trains in the run
MaxCount == 3      \* frames one train may hold
MaxFrames == 4     \* frames of one module in the run

\* cluster.scale(32)
WorkersRequested == 32
\* image.data is stored as uint16
UIntBits == 16

Modules == 0 .. (NMod - 1)

\* An unbound notebook name, and a bound one.
None == << >>
Some(x) == << x >>

----------------------------------------------------------------------------
(* numpy / dask.array semantics used by the notebook *)

RECURSIVE Prod(_)
Prod(s) == IF s = << >> THEN 1 ELSE Head(s) * Prod(Tail(s))

RECURSIVE SumSeq(_)
SumSeq(s) == IF s = << >> THEN 0 ELSE Head(s) + SumSeq(Tail(s))

Pow2(n) == 2 ^ n

\* Flat row-major offset (0-based) of a 0-based index tuple.
RECURSIVE Ravel(_, _)
Ravel(idx, shape) ==
    IF idx = << >> THEN 0
    ELSE Ravel(SubSeq(idx, 1, Len(idx) - 1), SubSeq(shape, 1, Len(shape) - 1))
             * shape[Len(shape)] + idx[Len(idx)]

\* The 0-based index tuple of the flat row-major offset k.
Unravel(k, shape) ==
    [i \in 1 .. Len(shape) |->
        (k \div Prod(SubSeq(shape, i + 1, Len(shape)))) % shape[i]]

\* arr[idx]
At(arr, idx) == arr.data[Ravel(idx, arr.shape) + 1]

\* arr[:, -1:], the last plane of the middle axis instead of the first.
GetItemLastOfAxis1(arr) ==
    LET newshape == [arr.shape EXCEPT ![2] = IF @ < 1 THEN @ ELSE 1]
    IN  [shape |-> newshape,
         data  |-> [k \in 1 .. Prod(newshape) |->
                      At(arr, [Unravel(k - 1, newshape) EXCEPT ![2] = arr.shape[2] - 1])]]

\* arr[:, :1]
GetItemFirstOfAxis1(arr) ==
    LET newshape == [arr.shape EXCEPT ![2] = IF @ < 1 THEN @ ELSE 1]
    IN  [shape |-> newshape,
         data  |-> [k \in 1 .. Prod(newshape) |-> At(arr, Unravel(k - 1, newshape))]]

\* A reshape that drops the frames that do not fill a last train.
ReshapeShapeTruncating(size, spec) ==
    LET known == Prod(SelectSeq(spec, LAMBDA d : d # -1))
    IN  [ok |-> TRUE,
         shape |-> [i \in 1 .. Len(spec) |->
                       IF spec[i] = -1 THEN size \div known ELSE spec[i]]]

\* The shape reshape(*spec) gives an array of `size` elements, where spec may
\* hold one -1; an error (dask raises while the graph is built) when the sizes
\* do not match.
ReshapeShape(size, spec) ==
    LET known   == Prod(SelectSeq(spec, LAMBDA d : d # -1))
        hasAuto == \E i \in 1 .. Len(spec) : spec[i] = -1
    IN  IF hasAuto
        THEN IF known = 0 \/ size % known # 0
             THEN [ok |-> FALSE, err |-> "ValueError"]
             ELSE [ok |-> TRUE,
                   shape |-> [i \in 1 .. Len(spec) |->
                                 IF spec[i] = -1 THEN size \div known ELSE spec[i]]]
        ELSE IF known # size
             THEN [ok |-> FALSE, err |-> "ValueError"]
             ELSE [ok |-> TRUE, shape |-> spec]

\* A reshape that groups the leading axis pulse-major (all trains of pulse 0,
\* then all trains of pulse 1, ...) instead of row-major.
ReshapePulseMajor(arr, shape) ==
    [shape |-> shape,
     data  |-> [k \in 1 .. Prod(shape) |->
                  LET idx == Unravel(k - 1, shape)
                      swapped == [idx EXCEPT ![1] = idx[2], ![2] = idx[1]]
                      swshape == [shape EXCEPT ![1] = shape[2], ![2] = shape[1]]
                  IN  arr.data[Ravel(swapped, swshape) + 1]]]

\* arr.reshape(shape): row-major order keeps the flat element order.
Reshape(arr, shape) == [shape |-> shape, data |-> arr.data]

\* A reduction that accumulates in the input's own uint16, whatever dtype is
\* asked for.
AccumulateNative(total, dtype) == total % Pow2(UIntBits)

\* The accumulator of a reduction with the given dtype.  A float32 holds the
\* whole numbers below 2^24 exactly, which covers every sum of the model.
Accumulate(total, dtype) ==
    IF dtype = "float32" THEN total ELSE total % Pow2(UIntBits)

\* arr.mean(axis=0, dtype=dtype).  A mean is kept as the exact fraction
\* <<sum, n>>.
MeanAxis0(arr, dtype) ==
    LET n     == arr.shape[1]
        inner == Prod(Tail(arr.shape))
    IN  [shape |-> Tail(arr.shape),
         data  |-> [k \in 1 .. inner |->
                      << Accumulate(SumSeq([t \in 1 .. n |-> arr.data[(t - 1) * inner + k]]),
                                    dtype),
                         n >>]]

RECURSIVE Concat(_)
Concat(ss) == IF ss = << >> THEN << >> ELSE Head(ss) \o Concat(Tail(ss))

\* A stack that lays the arrays out last to first.
StackArraysReversed(arrs) ==
    [shape |-> << Len(arrs) >> \o arrs[1].shape,
     data  |-> Concat([i \in 1 .. Len(arrs) |-> arrs[Len(arrs) + 1 - i].data])]

\* np.stack(arrays): a new leading axis, the arrays in the order given.
StackArrays(arrs) ==
    [shape |-> << Len(arrs) >> \o arrs[1].shape,
     data  |-> Concat([i \in 1 .. Len(arrs) |-> arrs[i].data])]

----------------------------------------------------------------------------
(* Lazy (dask) arrays: shape and dtype are known when the graph is built *)

\* f'SPB_DET_AGIPD1M-1/DET/{modno}CH0:xtdf'
SourceName(modno) == << "SPB_DET_AGIPD1M-1/DET/", modno, "CH0:xtdf" >>

\* run.get_data_counts(source, 'image.data'): frames per train, from the index.
get_data_counts(files, source) == files.counts

\* run.get_dask_array(source, 'image.data'): only the shape is read.
get_dask_array(files, source) ==
    [shape |-> files.data[source].shape,
     dtype |-> "uint16",
     graph |-> [op |-> "from_file", source |-> source]]

\* lazy[:, :1]
LazyGetItem(lz) ==
    [shape |-> [lz.shape EXCEPT ![2] = IF @ < 1 THEN @ ELSE 1],
     dtype |-> lz.dtype,
     graph |-> [op |-> "getitem", arg |-> lz.graph]]

\* lazy.reshape(shape), shape already resolved
LazyReshape(lz, shape) ==
    [shape |-> shape,
     dtype |-> lz.dtype,
     graph |-> [op |-> "reshape", shape |-> shape, arg |-> lz.graph]]

\* A mean over the pulse axis instead of the train axis.
LazyMeanAxis1(lz, dtype) ==
    [shape |-> << lz.shape[1] >> \o Tail(Tail(lz.shape)),
     dtype |-> dtype,
     graph |-> [op |-> "mean", dtype |-> dtype, arg |-> lz.graph]]

\* lazy.mean(axis=0, dtype=dtype)
LazyMean(lz, dtype) ==
    [shape |-> Tail(lz.shape),
     dtype |-> dtype,
     graph |-> [op |-> "mean", dtype |-> dtype, arg |-> lz.graph]]

\* da.stack(lazies)
da_stack(lzs) ==
    IF \E i \in 1 .. Len(lzs) : lzs[i].shape # lzs[1].shape
    THEN [ok |-> FALSE, err |-> "ValueError"]
    ELSE [ok |-> TRUE,
          value |-> [shape |-> << Len(lzs) >> \o lzs[1].shape,
                     dtype |-> lzs[1].dtype,
                     graph |-> [op |-> "stack",
                                args |-> [i \in 1 .. Len(lzs) |-> lzs[i].graph]]]]

\* What the workers compute for a graph, reading the files.
RECURSIVE Eval(_, _)
Eval(g, files) ==
    CASE g.op = "from_file" -> files.data[g.source]
      [] g.op = "getitem"   -> GetItemFirstOfAxis1(Eval(g.arg, files))
      [] g.op = "reshape"   -> Reshape(Eval(g.arg, files), g.shape)
      [] g.op = "mean"      -> MeanAxis0(Eval(g.arg, files), g.dtype)
      [] g.op = "stack"     ->
             StackArrays([i \in 1 .. Len(g.args) |-> Eval(g.args[i], files)])

\* The modules whose files a graph reads.
RECURSIVE SourcesOf(_)
SourcesOf(g) ==
    CASE g.op = "from_file" -> { g.source }
      [] g.op = "stack"     -> UNION { SourcesOf(g.args[i]) : i \in 1 .. Len(g.args) }
      [] OTHER              -> SourcesOf(g.arg)

\* A builder that loads the data of the graph as soon as it is built.
TasksRunEagerly(graph) == SourcesOf(graph)

\* Building a graph (get_dask_array, getitem, reshape, mean, stack) runs none
\* of its tasks: the sources whose data is read while it is built.
TasksRunWhenBuilding(graph) == { }

\* The shape report without the test on modno.
ShapeReportEveryModule(modno, arr, arr_trains) ==
    << << "array shape:", arr.shape >>, << "Reshaped to:", arr_trains.shape >> >>

\* if modno == 0: print("array shape:", arr.shape); print("Reshaped to:", ...)
ShapeReport(modno, arr, arr_trains) ==
    IF modno = 0
    THEN << << "array shape:", arr.shape >>, << "Reshaped to:", arr_trains.shape >> >>
    ELSE << >>

\* A compute that hands back whatever could be evaluated.
computePartial(lz, files, failed) ==
    [ok |-> TRUE, value |-> Eval(lz.graph, files), ran |-> SourcesOf(lz.graph) \ failed]

\* lazy.compute() on the cluster: the tasks of the sources in `failed` raise.
\* Any failed task fails the whole call; nothing is retried.
compute(lz, files, failed) ==
    IF failed = { }
    THEN [ok |-> TRUE, value |-> Eval(lz.graph, files), ran |-> SourcesOf(lz.graph)]
    ELSE [ok |-> FALSE, err |-> "WorkerTaskError", ran |-> SourcesOf(lz.graph) \ failed]

\* An average_module that checks the frame counts it fetches and refuses a
\* train that holds a partial group of pulses.
average_module_checking_counts(modno, files, pulses_per_train) ==
    LET source == SourceName(modno)
        counts == get_data_counts(files, source)
        arr    == LazyGetItem(get_dask_array(files, source))
        rs     == ReshapeShape(Prod(arr.shape), << -1, pulses_per_train, Rows, Cols >>)
    IN  IF \E j \in 1 .. Len(counts) : counts[j] % pulses_per_train # 0
        THEN [ok |-> FALSE, err |-> "ValueError", printed |-> << >>, ran |-> { }]
        ELSE IF ~rs.ok
        THEN [ok |-> FALSE, err |-> rs.err, printed |-> << >>,
              ran |-> TasksRunWhenBuilding(arr.graph)]
        ELSE LET arr_trains == LazyReshape(arr, rs.shape)
                 result     == LazyMean(arr_trains, "float32")
             IN  [ok      |-> TRUE,
                  value   |-> result,
                  printed |-> ShapeReport(modno, arr, arr_trains),
                  ran     |-> TasksRunWhenBuilding(result.graph)]

\* def average_module(modno, run, pulses_per_train=64)
average_module(modno, files, pulses_per_train) ==
    LET source == SourceName(modno)
        counts == get_data_counts(files, source)
        arr    == LazyGetItem(get_dask_array(files, source))
        rs     == ReshapeShape(Prod(arr.shape), << -1, pulses_per_train, Rows, Cols >>)
    IN  IF ~rs.ok
        THEN [ok |-> FALSE, err |-> rs.err, printed |-> << >>,
              ran |-> TasksRunWhenBuilding(arr.graph)]
        ELSE LET arr_trains == LazyReshape(arr, rs.shape)
                 result     == LazyMean(arr_trains, "float32")
             IN  [ok      |-> TRUE,
                  value   |-> result,
                  printed |-> ShapeReport(modno, arr, arr_trains),
                  ran     |-> TasksRunWhenBuilding(result.graph)]

----------------------------------------------------------------------------
(* The run on disk *)

\* Frame levels the run may hold (uint16).
BaseLevels == { 0, 1, Pow2(UIntBits) - 1 }

\* The value of one element of a module's image.data: plane 0 of the middle
\* axis is the pixel data (frame level, module pedestal, pixel offset), the
\* other planes are the gain.
Pixel(level, modno, d, r, c) ==
    IF d = 0
    THEN (level + modno * Rows * Cols + r * Cols + c) % Pow2(UIntBits)
    ELSE Pow2(UIntBits - 1) + d

\* Frames per train of the run: at least one frame in all.
TrainCounts ==
    { cs \in UNION { [1 .. n -> 0 .. MaxCount] : n \in 1 .. MaxTrains } :
        SumSeq(cs) \in 1 .. MaxFrames }

ModuleData(levels, modno) ==
    LET shape == << Len(levels), Dummy, Rows, Cols >>
    IN  [shape |-> shape,
         data  |-> [k \in 1 .. Prod(shape) |->
                      LET idx == Unravel(k - 1, shape)
                      IN  Pixel(levels[idx[1] + 1], modno, idx[2], idx[3], idx[4])]]

\* The files of one run: every module records the same trains.
RunFiles(counts, levels) ==
    [counts |-> counts,
     data   |-> [s \in { SourceName(m) : m \in Modules } |->
                   ModuleData(levels, CHOOSE m \in Modules : SourceName(m) = s)]]

----------------------------------------------------------------------------
(* The notebook: one action per code cell, run top to bottom *)

VARIABLES
    disk,            \* the files of the run (proposal 700000, run 2)
    cluster,         \* the SLURMCluster: its state and the workers asked for
    client,          \* the dask.distributed Client
    run,             \* the name `run`
    loop_i,          \* position of the list comprehension over range(16)
    loop_acc,        \* the list it has built so far
    mod_averages,    \* the name `mod_averages`
    all_average,     \* the name `all_average`
    all_average_arr, \* the name `all_average_arr`
    stdout,          \* lines printed so far
    executed,        \* sources whose tasks the workers have run
    computes,        \* compute() calls issued
    error,           \* the exception that stopped the run, if any
    pc               \* the next cell

vars == << disk, cluster, client, run, loop_i, loop_acc, mod_averages,
           all_average, all_average_arr, stdout, executed, computes, error, pc >>

Init ==
    /\ \E counts \in TrainCounts :
         \E levels \in [1 .. SumSeq(counts) -> BaseLevels] :
            disk = RunFiles(counts, levels)
    /\ cluster = [state |-> "unset", workers |-> 0]
    /\ client = "unset"
    /\ run = "unset"
    /\ loop_i = 0
    /\ loop_acc = << >>
    /\ mod_averages = None
    /\ all_average = None
    /\ all_average_arr = None
    /\ stdout = << >>
    /\ executed = { }
    /\ computes = 0
    /\ error = None
    /\ pc = "cluster"

\* A failing cell that released the workers on its way out.
RaiseAndRelease(cell, err) ==
    /\ error' = Some([cell |-> cell, err |-> err])
    /\ pc' = "aborted"
    /\ client' = "closed"
    /\ cluster' = [state |-> "closed", workers |-> 0]

\* An unhandled exception stops the run at the cell that raised it; no cell
\* has a try/finally, so the client and the cluster are left as they are.
Raise(cell, err) ==
    /\ error' = Some([cell |-> cell, err |-> err])
    /\ pc' = "aborted"
    /\ UNCHANGED << cluster, client >>

\* A cell that returns normally leaves the error and the resources alone.
Return == UNCHANGED << error, cluster, client >>

\* cluster = SLURMCluster(queue=partition, processes=16, cores=16, memory='512GB')
ClusterCell ==
    /\ pc = "cluster"
    /\ cluster' = [state |-> "running", workers |-> 0]
    /\ pc' = "scale"
    /\ UNCHANGED << disk, client, run, loop_i, loop_acc, mod_averages, all_average,
                    all_average_arr, stdout, executed, computes, error >>

\* cluster.scale(32)
ScaleCell ==
    /\ pc = "scale"
    /\ cluster' = [cluster EXCEPT !.workers = WorkersRequested]
    /\ pc' = "client"
    /\ UNCHANGED << disk, client, run, loop_i, loop_acc, mod_averages, all_average,
                    all_average_arr, stdout, executed, computes, error >>

\* client = Client(cluster); print("Created dask client:", client)
ClientCell ==
    /\ pc = "client"
    /\ client' = "connected"
    /\ stdout' = Append(stdout, << "Created dask client:", WorkersRequested >>)
    /\ pc' = "open_run"
    /\ UNCHANGED << disk, cluster, run, loop_i, loop_acc, mod_averages, all_average,
                    all_average_arr, executed, computes, error >>

\* run = open_run(proposal=700000, run=2); run.info()
OpenRunCell ==
    /\ pc = "open_run"
    /\ \/ /\ run' = "open"
          /\ stdout' = Append(stdout, << "# of trains:", Len(disk.counts) >>)
          /\ pc' = "get_dask_array"
          /\ Return
       \/ \* the run directory cannot be read
          /\ Raise("open_run", "OSError")
          /\ UNCHANGED << run, stdout >>
    /\ UNCHANGED << disk, loop_i, loop_acc, mod_averages, all_average,
                    all_average_arr, executed, computes >>

\* run.get_dask_array('SPB_DET_AGIPD1M-1/DET/0CH0:xtdf', 'image.data'), displayed
GetDaskArrayCell ==
    /\ pc = "get_dask_array"
    /\ stdout' = Append(stdout,
                        << "dask.array", get_dask_array(disk, SourceName(0)).shape >>)
    /\ pc' = "mod_averages"
    /\ UNCHANGED << disk, cluster, client, run, loop_i, loop_acc, mod_averages,
                    all_average, all_average_arr, executed, computes, error >>

\* One call of the comprehension
\*   mod_averages = [average_module(i, run, pulses_per_train=64) for i in range(16)]
\* the name is bound when the last call has returned.
AverageModuleCall ==
    /\ pc = "mod_averages"
    /\ loop_i < NMod
    /\ LET res == average_module(loop_i, disk, PulsesPerTrain)
       IN  /\ stdout' = stdout \o res.printed
           /\ executed' = executed \cup res.ran
           /\ IF ~res.ok
              THEN /\ Raise("mod_averages", res.err)
                   /\ loop_acc' = << >>
                   /\ UNCHANGED << loop_i, mod_averages >>
              ELSE /\ loop_i' = loop_i + 1
                   /\ Return
                   /\ IF loop_i + 1 = NMod
                      THEN /\ mod_averages' = Some(Append(loop_acc, res.value))
                           /\ loop_acc' = << >>
                           /\ pc' = "stack"
                      ELSE /\ loop_acc' = Append(loop_acc, res.value)
                           /\ UNCHANGED << mod_averages, pc >>
    /\ UNCHANGED << disk, run, all_average, all_average_arr, computes >>

\* all_average = da.stack(mod_averages)
StackCell ==
    /\ pc = "stack"
    /\ LET res == da_stack(mod_averages[1])
       IN  IF res.ok
           THEN /\ all_average' = Some(res.value)
                /\ executed' = executed \cup TasksRunWhenBuilding(res.value.graph)
                /\ pc' = "compute"
                /\ Return
           ELSE /\ Raise("stack", res.err)
                /\ UNCHANGED << all_average, executed >>
    /\ UNCHANGED << disk, run, loop_i, loop_acc, mod_averages,
                    all_average_arr, stdout, computes >>

\* %%time
\* all_average_arr = all_average.compute()
\* The call blocks until every task has run or one has failed.
ComputeCell ==
    /\ pc = "compute"
    /\ computes' = computes + 1
    /\ \E failed \in SUBSET SourcesOf(all_average[1].graph) :
          LET res == compute(all_average[1], disk, failed)
          IN  /\ executed' = executed \cup res.ran
              /\ IF res.ok
                 THEN /\ all_average_arr' = Some(res.value)
                      /\ stdout' = Append(stdout, << "Wall time:" >>)
                      /\ pc' = "print"
                      /\ Return
                 ELSE /\ Raise("compute", res.err)
                      /\ UNCHANGED << all_average_arr, stdout >>
    /\ UNCHANGED << disk, run, loop_i, loop_acc, mod_averages, all_average >>

\* print(all_average_arr[0, 0, :5, :5])
PrintCell ==
    /\ pc = "print"
    /\ LET a == all_average_arr[1]
       IN  stdout' = Append(stdout,
               << "values",
                  [r \in 1 .. (IF a.shape[3] < 5 THEN a.shape[3] ELSE 5) |->
                     [c \in 1 .. (IF a.shape[4] < 5 THEN a.shape[4] ELSE 5) |->
                        At(a, << 0, 0, r - 1, c - 1 >>)]] >>)
    /\ pc' = "close"
    /\ UNCHANGED << disk, cluster, client, run, loop_i, loop_acc, mod_averages,
                    all_average, all_average_arr, executed, computes, error >>

\* The closing cell placed ahead of the compute cell.
CloseCellBeforeCompute ==
    /\ pc \in { "compute", "close", "aborted" }
    /\ client' = "closed"
    /\ cluster' = [state |-> "closed", workers |-> 0]
    /\ pc' = IF pc = "compute" THEN "compute" ELSE "done"
    /\ UNCHANGED << disk, run, loop_i, loop_acc, mod_averages, all_average,
                    all_average_arr, stdout, executed, computes, error >>

\* client.close(); cluster.close()  -- also run by hand after a failed cell
CloseCell ==
    /\ pc \in { "close", "aborted" }
    /\ client' = "closed"
    /\ cluster' = [state |-> "closed", workers |-> 0]
    /\ pc' = "done"
    /\ UNCHANGED << disk, run, loop_i, loop_acc, mod_averages, all_average,
                    all_average_arr, stdout, executed, computes, error >>

Next ==
    \/ ClusterCell
    \/ ScaleCell
    \/ ClientCell
    \/ OpenRunCell
    \/ GetDaskArrayCell
    \/ AverageModuleCall
    \/ StackCell
    \/ ComputeCell
    \/ PrintCell
    \/ CloseCell

Spec == Init /\ [][Next]_vars

----------------------------------------------------------------------------
(* Properties *)

\* image.data of module modno, as stored
Stored(modno) == disk.data[SourceName(modno)]

\* frames stored for a module
Frames(modno) == Stored(modno).shape[1]

\* The lazy per-module averages built so far, module 0 first.
BuiltAverages == IF mod_averages # None THEN mod_averages[1] ELSE loop_acc

PulseIdx == 0 .. (PulsesPerTrain - 1)
RowIdx == 0 .. (Rows - 1)
ColIdx == 0 .. (Cols - 1)

\* The mean over the trains t of the stored frame t * pulses_per_train + p at
\* pixel (r, c), as the fraction <<sum, trains>>.
DirectMean(modno, p, r, c) ==
    LET trains == Frames(modno) \div PulsesPerTrain
    IN  << SumSeq([t \in 1 .. trains |->
                     At(Stored(modno), << (t - 1) * PulsesPerTrain + p, 0, r, c >>)]),
           trains >>

\* C1: the average average_module returns for a module holds, at (p, r, c),
\* the arithmetic mean over the trains t of the input frame t*P + p at pixel
\* (r, c): frames are grouped row-major into (train, pulse) and the mean runs
\* over the train axis only.
C1_PerPulseMean ==
    \A i \in 1 .. Len(BuiltAverages) :
        LET avg == Eval(BuiltAverages[i].graph, disk)
        IN  \A p \in PulseIdx, r \in RowIdx, c \in ColIdx :
                At(avg, << p, r, c >>) = DirectMean(i - 1, p, r, c)

\* Two trains whose frames differ across the train boundary, all averages built.
C1_Witness ==
    /\ mod_averages # None
    /\ Frames(0) = 2 * PulsesPerTrain
    /\ At(Stored(0), << 1, 0, 0, 0 >>) # At(Stored(0), << PulsesPerTrain, 0, 0, 0 >>)

\* C2: entry i of the evaluated stack is the average average_module(i, ...)
\* describes, and that average reads module i's source and no other.
C2_StackKeepsModuleOrder ==
    all_average_arr # None =>
        \A i \in Modules :
            LET own == average_module(i, disk, PulsesPerTrain).value
            IN  /\ SourcesOf(all_average[1].graph.args[i + 1]) = { SourceName(i) }
                /\ SourcesOf(own.graph) = { SourceName(i) }
                /\ \A p \in PulseIdx, r \in RowIdx, c \in ColIdx :
                       /\ At(all_average_arr[1], << i, p, r, c >>)
                              = At(Eval(own.graph, disk), << p, r, c >>)
                       /\ At(all_average_arr[1], << i, p, r, c >>)
                              = DirectMean(i, p, r, c)

\* The stack is evaluated and its first and last entries differ.
C2_Witness ==
    /\ all_average_arr # None
    /\ At(all_average_arr[1], << 0, 0, 0, 0 >>)
           # At(all_average_arr[1], << NMod - 1, 0, 0, 0 >>)

\* the frame count of some module is no multiple of pulses_per_train
NotDivisible == \E m \in Modules : Frames(m) % PulsesPerTrain # 0

AllSources == { SourceName(m) : m \in Modules }

ComputeFailed == error # None /\ error[1].cell = "compute"

\* C4: when the evaluation fails because a worker task of any module fails,
\* the whole computation aborts: all_average_arr stays unbound (no partial
\* result), the run stops with the error, and compute() is never called again.
C4_FailedTaskAborts ==
    /\ [](ComputeFailed =>
            /\ all_average_arr = None
            /\ computes = 1
            /\ pc \in { "aborted", "done" })
    /\ [][(pc = "compute" /\ executed' # AllSources) =>
            /\ all_average_arr' = None
            /\ pc' = "aborted"
            /\ error' = Some([cell |-> "compute", err |-> "WorkerTaskError"])]_vars
    /\ [][computes' # computes => computes = 0]_vars

\* The evaluation failed on the task of exactly one module.
C4_Witness ==
    /\ ComputeFailed
    /\ Cardinality(executed) = NMod - 1

\* C5: nothing is loaded or computed while the per-module averages are built
\* and stacked; compute() is called once, after all of them are built and
\* stacked, and the concrete result exists only after it has returned.
C5_EvaluationDeferred ==
    /\ computes = 0 => (executed = { } /\ all_average_arr = None)
    /\ computes \in { 0, 1 }
    /\ computes = 1 =>
          /\ mod_averages # None
          /\ Len(mod_averages[1]) = NMod
          /\ all_average # None
          /\ pc \notin { "mod_averages", "stack", "compute" }
    /\ all_average_arr # None => (computes = 1 /\ executed = AllSources)

\* Everything is built and stacked, compute() has not been called, no task ran.
C5_Witness ==
    /\ pc = "compute"
    /\ mod_averages # None
    /\ Len(mod_averages[1]) = NMod
    /\ all_average # None
    /\ executed = { }

\* C6 as stated: a call of average_module changes nothing observable, the
\* console included, for every module index.
C6_NoSideEffects ==
    [][pc = "mod_averages" =>
          UNCHANGED << stdout, disk, run, cluster, client, executed >>]_vars

\* the two lines average_module prints for module 0
ShapeLines ==
    << << "array shape:", << Frames(0), 1, Rows, Cols >> >>,
       << "Reshaped to:",
          << Frames(0) \div PulsesPerTrain, PulsesPerTrain, Rows, Cols >> >> >>

\* C6: a call of average_module leaves the run, the stored arrays, the
\* cluster, the client and the set of executed tasks unchanged; it prints
\* nothing for the module indices above 0, and for module 0 it prints the two
\* shape lines when it returns (nothing when it raises).
C6_OnlyModuleZeroPrints ==
    [][pc = "mod_averages" =>
          /\ UNCHANGED << disk, run, cluster, client, executed, computes,
                          all_average, all_average_arr >>
          /\ loop_i # 0 => stdout' = stdout
          /\ (loop_i = 0 /\ error' = None) => stdout' = stdout \o ShapeLines
          /\ (loop_i = 0 /\ error' # None) => stdout' = stdout]_vars

\* Every module has been averaged and the shape lines were printed once.
C6_Witness ==
    /\ pc = "stack"
    /\ loop_i = NMod
    /\ NMod > 1
    /\ Len(SelectSeq(stdout, LAMBDA l : l[1] = "array shape:")) = 1

Provisioned == cluster = [state |-> "running", workers |-> WorkersRequested]

\* the evaluation has returned or raised
EvaluationFinished == computes = 1 /\ (all_average_arr # None \/ ComputeFailed)

\* C7: the steps come in the order provision (create, scale to 32), connect
\* the client, build and evaluate, release: the client connects to the scaled
\* cluster before anything is built, building and evaluating happen with the
\* workers provisioned and the client connected, the workers are released only
\* when the evaluation has finished (or the run has stopped on an error before
\* it), and nothing is built or evaluated after the release.
C7_LifecycleOrder ==
    /\ [][/\ (cluster'.workers = WorkersRequested /\ cluster.workers # WorkersRequested)
                => (cluster.state = "running" /\ client = "unset")
          /\ (client' = "connected" /\ client # "connected")
                => (Provisioned /\ run = "unset" /\ loop_i = 0 /\ computes = 0)
          /\ (run' # run \/ loop_i' # loop_i \/ mod_averages' # mod_averages
                \/ all_average' # all_average \/ computes' # computes
                \/ all_average_arr' # all_average_arr)
                => (Provisioned /\ client = "connected")
          /\ (cluster'.state = "closed" /\ cluster.state # "closed")
                => /\ client' = "closed"
                   /\ EvaluationFinished \/ (computes = 0 /\ error # None)
          /\ (cluster.state = "closed" \/ client = "closed")
                => UNCHANGED << cluster, client >>]_vars
    /\ []((cluster.state = "closed" \/ client = "closed") => pc = "done")

\* The workers were released after a finished evaluation.
C7_Witness ==
    /\ cluster.state = "closed"
    /\ client = "closed"
    /\ all_average_arr # None

\* C8: a failing step never releases the workers: after a failure the cluster
\* is still provisioned and the client connected, and the only step that
\* releases them is the closing cell, which is run explicitly.
C8_NoCleanupOnFailure ==
    /\ [](pc = "aborted" => (error # None /\ Provisioned /\ client = "connected"))
    /\ [][error' # error => UNCHANGED << cluster, client >>]_vars
    /\ [][((Provisioned /\ cluster' # cluster) \/ (client = "connected" /\ client' # client))
            => (pc \in { "close", "aborted" } /\ pc' = "done" /\ error' = error)]_vars

\* The evaluation has failed and the workers are still provisioned.
C8_Witness ==
    /\ pc = "aborted"
    /\ ComputeFailed
    /\ Provisioned

\* C10: each per-module average has shape (P, H, W) and the stacked result
\* (N, P, H, W), lazily and once evaluated, whatever the number of trains.
C10_ResultShapes ==
    /\ \A i \in 1 .. Len(BuiltAverages) :
          /\ BuiltAverages[i].shape = << PulsesPerTrain, Rows, Cols >>
          /\ Eval(BuiltAverages[i].graph, disk).shape = << PulsesPerTrain, Rows, Cols >>
          /\ Len(Eval(BuiltAverages[i].graph, disk).data) = PulsesPerTrain * Rows * Cols
    /\ all_average # None =>
          all_average[1].shape = << NMod, PulsesPerTrain, Rows, Cols >>
    /\ all_average_arr # None =>
          /\ all_average_arr[1].shape = << NMod, PulsesPerTrain, Rows, Cols >>
          /\ Len(all_average_arr[1].data) = NMod * PulsesPerTrain * Rows * Cols

\* The stack is evaluated for a run of more than one train, stored with a
\* middle axis wider than one.
C10_Witness ==
    /\ all_average_arr # None
    /\ Frames(0) > PulsesPerTrain
    /\ Stored(0).shape[2] > 1

\* C11: the mean is accumulated as float32, wider than the uint16 input, so
\* it does not wrap: where the frames of a pulse sum to 2^16 or more over the
\* trains, the average holds the true sum over the train count, not the sum
\* reduced modulo 2^16.
C11_NoWrapAround ==
    \A i \in 1 .. Len(BuiltAverages) :
        LET avg == Eval(BuiltAverages[i].graph, disk)
        IN  /\ get_dask_array(disk, SourceName(i - 1)).dtype = "uint16"
            /\ BuiltAverages[i].dtype = "float32"
            /\ \A p \in PulseIdx, r \in RowIdx, c \in ColIdx :
                  LET exact == DirectMean(i - 1, p, r, c)
                      got   == At(avg, << p, r, c >>)
                  IN  exact[1] >= Pow2(UIntBits) =>
                         /\ got[1] = exact[1]
                         /\ got[1] # exact[1] % Pow2(UIntBits)
                         /\ got[2] = exact[2]

\* The averages are built and the frames of some pulse of module 0 sum to
\* 2^16 or more.
C11_Witness ==
    /\ mod_averages # None
    /\ \E p \in PulseIdx, r \in RowIdx, c \in ColIdx :
          DirectMean(0, p, r, c)[1] >= Pow2(UIntBits)

\* The files with every element at a middle-axis index of 1 or more replaced:
\* frame f holds planes[f + 1] there.  Index 0 is left as stored.
WithOtherPlanes(files, planes) ==
    [counts |-> files.counts,
     data   |-> [s \in DOMAIN files.data |->
                   LET a == files.data[s]
                   IN  [shape |-> a.shape,
                        data  |-> [k \in 1 .. Len(a.data) |->
                                     LET idx == Unravel(k - 1, a.shape)
                                     IN  IF idx[2] = 0 THEN a.data[k]
                                         ELSE planes[idx[1] + 1]]]]]

\* Contents tried for the planes above 0, one level per frame: all zero, or
\* all zero but for one frame at the top of the uint16 range.
OtherPlanes ==
    { [g \in 1 .. Frames(0) |-> IF g = f THEN Pow2(UIntBits) - 1 ELSE 0] :
        f \in 0 .. Frames(0) }

\* a and b hold the same elements at middle-axis index 0
AgreeOnPlaneZero(a, b) ==
    /\ a.shape = b.shape
    /\ \A k \in 1 .. Len(a.data) :
          Unravel(k - 1, a.shape)[2] = 0 => a.data[k] = b.data[k]

\* C12: only index 0 of the middle axis contributes: inputs that agree on
\* every element at middle-axis index 0 and differ at the indices above it
\* give identical per-module averages and an identical stacked result.
C12_OnlyPlaneZeroCounts ==
    BuiltAverages # << >> =>
      \A planes \in OtherPlanes :
        LET other == WithOtherPlanes(disk, planes)
        IN  /\ \A m \in Modules :
                  AgreeOnPlaneZero(other.data[SourceName(m)], Stored(m))
            /\ \A i \in 1 .. Len(BuiltAverages) :
                  Eval(BuiltAverages[i].graph, other) = Eval(BuiltAverages[i].graph, disk)
            /\ all_average_arr # None =>
                  Eval(all_average[1].graph, other) = all_average_arr[1]

\* The stack is evaluated on files whose middle axis is wider than 1, and
\* some input tried differs from the stored one above index 0.
C12_Witness ==
    /\ all_average_arr # None
    /\ Stored(0).shape[2] > 1
    /\ \E planes \in OtherPlanes :
          \E k \in 1 .. Len(Stored(0).data) :
             WithOtherPlanes(disk, planes).data[SourceName(0)].data[k] # Stored(0).data[k]

\* The position of flat frame f (0-based) within its own train, for the given
\* frames per train.
RECURSIVE PosInTrain(_, _)
PosInTrain(counts, f) ==
    IF f < Head(counts) THEN f ELSE PosInTrain(Tail(counts), f - Head(counts))

FrameIdx == 0 .. (Frames(0) - 1)

\* every train holds no frame or exactly pulses_per_train frames
UniformTrains == \A j \in 1 .. Len(disk.counts) : disk.counts[j] \in { 0, PulsesPerTrain }

\* some train holds a partial group of pulses, yet the total is divisible
RaggedButDivisible ==
    /\ \E j \in 1 .. Len(disk.counts) : disk.counts[j] % PulsesPerTrain # 0
    /\ ~NotDivisible

\* The mean of the stored frames whose position in their own train is p, as
\* the fraction <<sum, frames>>.
PositionMean(modno, p, r, c) ==
    << SumSeq([g \in 1 .. Frames(modno) |->
                 IF PosInTrain(disk.counts, g - 1) = p
                 THEN At(Stored(modno), << g - 1, 0, r, c >>) ELSE 0]),
       Cardinality({ f \in FrameIdx : PosInTrain(disk.counts, f) = p }) >>

\* the averaging cell has run to its end or has raised
AveragingCellOver == run = "open" /\ pc \notin { "get_dask_array", "mod_averages" }

\* C13: average_module does not use the per-train frame counts it fetches, so
\* the grouping follows the flat frame sequence alone.  (a) When every train
\* holds 0 or exactly pulses_per_train frames, each frame is averaged under
\* its position in its own train.  (b) When some train holds a count that is
\* no multiple of pulses_per_train while the total is divisible, no error is
\* raised, each frame f is averaged under f mod pulses_per_train, and some
\* frame of a later train has another position in its own train.
C13_CountsIgnored ==
    /\ \A i \in 1 .. Len(BuiltAverages) :
          \A cs \in { x \in TrainCounts : SumSeq(x) = Frames(i - 1) } :
             LET res == average_module(i - 1, [disk EXCEPT !.counts = cs], PulsesPerTrain)
             IN  res.ok /\ res.value = BuiltAverages[i]
    /\ UniformTrains =>
          /\ \A f \in FrameIdx : PosInTrain(disk.counts, f) = f % PulsesPerTrain
          /\ \A i \in 1 .. Len(BuiltAverages) :
                \A p \in PulseIdx, r \in RowIdx, c \in ColIdx :
                   At(Eval(BuiltAverages[i].graph, disk), << p, r, c >>)
                       = PositionMean(i - 1, p, r, c)
    /\ RaggedButDivisible =>
          /\ AveragingCellOver =>
                (mod_averages # None /\ (error = None \/ error[1].cell # "mod_averages"))
          /\ \E f \in FrameIdx :
                /\ f >= disk.counts[1]
                /\ PosInTrain(disk.counts, f) # f % PulsesPerTrain
          /\ \A i \in 1 .. Len(BuiltAverages) :
                \A p \in PulseIdx, r \in RowIdx, c \in ColIdx :
                   At(Eval(BuiltAverages[i].graph, disk), << p, r, c >>)
                       = DirectMean(i - 1, p, r, c)

\* Averages were built without error from trains holding partial groups of
\* pulses, and an average differs from the mean of the frames at that position
\* of their train.
C13_Witness ==
    /\ RaggedButDivisible
    /\ mod_averages # None
    /\ \E p \in PulseIdx :
          At(Eval(mod_averages[1][1].graph, disk), << p, 0, 0 >>) # PositionMean(0, p, 0, 0)
====
